---- MODULE Spec2Model ----
(***************************************************************************)
(* CarbonWise backend: the estimation pipeline of main.py (material         *)
(* matcher, unit converter, emission estimator, recommendation engine,      *)
(* /analyze orchestrator) and the LLM estimator of carbon_estimator.py.     *)
(*                                                                          *)
(* Text is a sequence of one-character strings, so that lower(), strip(),   *)
(* `in` and the regular-expression search are computed, not assumed.        *)
(* Python's None is the one-element sequence <<"None">>, which no text of   *)
(* the model equals, and -1 where a number is expected.                     *)
(*                                                                          *)
(* Numbers are fixed point.  A weight is an integer count of 1e-7 kg (the   *)
(* conversion factors of convert_to_kg have seven decimals), an emission    *)
(* factor an integer count of 0.1 kg CO2e/kg, and a footprint, their        *)
(* product times a quantity, an integer count of 1e-8 kg.                   *)
(***************************************************************************)
EXTENDS Integers, Sequences, FiniteSets, TLC

VARIABLES
    pc,                   \* position of the running call
    ef_file,              \* rows of emission_factor_dataset.csv
    products_file,        \* rows of amazon_products.csv
    credentials,          \* LLM credentials of the environment, in configured order
    product_data,         \* result of scrape_amazon_product
    best_material_match,  \* analyze_product / material argument of calculate_carbon_footprint
    weight_in_kg,         \* argument of calculate_carbon_footprint
    net_quantity,         \* argument of calculate_carbon_footprint
    carbon_footprint,     \* value calculate_carbon_footprint returned
    estimate_path,        \* which return statement produced carbon_footprint
    llm_attempts,         \* generate_content calls made by the running call
    llm_outcome,          \* how estimate_carbon ended
    product_name,         \* argument of get_recommendations
    analyzed_carbon_footprint, \* argument of get_recommendations
    matched_category,     \* get_recommendations
    recommendations,      \* value get_recommendations returned
    text_to_search,       \* argument of find_best_material_match
    known_materials,      \* argument of find_best_material_match
    match_result,         \* value find_best_material_match returned
    raised_in,            \* the step of the running request that raised, if any
    response              \* ProductAnalysisResponse of the running request

vars == <<pc, ef_file, products_file, credentials, product_data,
          best_material_match, weight_in_kg, net_quantity, carbon_footprint,
          estimate_path, llm_attempts, llm_outcome, product_name,
          analyzed_carbon_footprint, matched_category, recommendations,
          text_to_search, known_materials, match_result, raised_in,
          response>>

(***************************************************************************)
(* Bounds of the model.                                                     *)
(***************************************************************************)
MaxTextLen == 3
MaxTableLen == 2
MaxMentions == 2
MaxCatalogLen == 2
FillerLen == 10
MaxCreds == 3

(***************************************************************************)
(* Python values and str methods.                                           *)
(***************************************************************************)
None == <<"None">>
NoneNum == -1

SeqsUpTo(S, n) == UNION {[1..k -> S] : k \in 0..n}

LowerChar(c) ==
    CASE c = "A" -> "a"
      [] c = "B" -> "b"
      [] c = "S" -> "s"
      [] c = "P" -> "p"
      [] c = "G" -> "g"
      [] c = "O" -> "o"
      [] c = "L" -> "l"
      [] OTHER -> c

Lower(s) == [i \in 1..Len(s) |-> LowerChar(s[i])]

RECURSIVE LStrip(_)
LStrip(s) == IF s # <<>> /\ Head(s) = " " THEN LStrip(Tail(s)) ELSE s

RECURSIVE RStrip(_)
RStrip(s) ==
    IF s # <<>> /\ s[Len(s)] = " " THEN RStrip(SubSeq(s, 1, Len(s) - 1)) ELSE s

Strip(s) == RStrip(LStrip(s))

\* p occurs in s starting at index i (1-based)
OccursAt(p, s, i) ==
    /\ i + Len(p) - 1 <= Len(s)
    /\ \A j \in 1..Len(p) : s[i + j - 1] = p[j]

\* Python's `p in s`
Contains(p, s) == \E i \in 1..(Len(s) + 1) : OccursAt(p, s, i)

(***************************************************************************)
(* find_best_material_match, main.py 49-59.                                 *)
(***************************************************************************)
\* re.compile('|'.join(...)).search(lower_text): the scan tries the start
\* positions left to right and, at each, the alternatives in list order; the
\* first alternative that matches at the leftmost matching position is
\* group(0).  An empty alternation is the empty pattern, which matches the
\* empty string at position 0.
RECURSIVE FirstAltAt(_, _, _, _)
FirstAltAt(alts, s, i, k) ==
    IF k > Len(alts) THEN None
    ELSE IF OccursAt(alts[k], s, i) THEN alts[k]
    ELSE FirstAltAt(alts, s, i, k + 1)

RECURSIVE SearchFrom(_, _, _)
SearchFrom(alts, s, i) ==
    IF i > Len(s) + 1 THEN None
    ELSE IF FirstAltAt(alts, s, i, 1) # None THEN FirstAltAt(alts, s, i, 1)
    ELSE SearchFrom(alts, s, i + 1)

RegexSearch(alts, s) == IF alts = <<>> THEN <<>> ELSE SearchFrom(alts, s, 1)

find_best_material_match(text, known) ==
    IF text = <<>> THEN None
    ELSE LET lower_text == Lower(text)
         IN  IF \E i \in 1..Len(known) : known[i] = lower_text
             THEN lower_text
             ELSE RegexSearch(known, lower_text)

\* bool(x) of an Optional[str]
Truthy(x) == x # None /\ x # <<>>

(***************************************************************************)
(* Fixed-point scales and the program's numeric constants.                  *)
(***************************************************************************)
KgScale == 10000000            \* weight counts per kg
GramScale == 10000             \* value / 1000.0
OunceScale == 283495           \* value * 0.0283495
PoundScale == 4535920          \* value * 0.453592
FootprintPerKg == 100000000    \* footprint counts per kg CO2e
RoundGrid == 100000            \* 0.001 kg CO2e, the grid of round(x, 3)
DefaultFactor == 25            \* 2.5 kg CO2e/kg
HeadLimit == 10                \* head(10)

\* round(x, 3) and Series.round(3): to the nearest multiple of 0.001.  An
\* exact decimal tie is decided by the binary value of the float; the
\* weights and factors of the model are chosen to produce none.
Round3(x) ==
    LET q == x \div RoundGrid
        r == x % RoundGrid
    IN  IF 2 * r < RoundGrid THEN q * RoundGrid
        ELSE IF 2 * r > RoundGrid THEN (q + 1) * RoundGrid
        ELSE (q + (q % 2)) * RoundGrid

(***************************************************************************)
(* convert_to_kg, main.py 61-71.  value is a whole number of `unit`s, the   *)
(* result a weight count.                                                   *)
(***************************************************************************)
convert_to_kg(value, unit) ==
    IF unit = None THEN value * KgScale
    ELSE LET u == Lower(unit)
         IN  IF u \in {<<"g">>, <<"g", "m">>, <<"g", "r", "a", "m", "s">>}
             THEN value * GramScale
             ELSE IF u \in {<<"o", "z">>, <<"o", "u", "n", "c", "e">>,
                            <<"o", "u", "n", "c", "e", "s">>}
             THEN value * OunceScale
             ELSE IF u \in {<<"l", "b">>, <<"l", "b", "s">>,
                            <<"p", "o", "u", "n", "d">>,
                            <<"p", "o", "u", "n", "d", "s">>}
             THEN value * PoundScale
             ELSE value * KgScale

(***************************************************************************)
(* The emission-factor table as analyze_product and get_recommendations     *)
(* load it: a row of ef_file is [Material, factor], and material_clean is   *)
(* Material.str.strip().str.lower().                                        *)
(***************************************************************************)
material_clean(row) == Lower(Strip(row.Material))

\* Series.unique(): the distinct values in order of first appearance
RECURSIVE Unique(_)
Unique(s) ==
    IF s = <<>> THEN <<>>
    ELSE LET init == Unique(SubSeq(s, 1, Len(s) - 1))
             x == s[Len(s)]
         IN  IF \E i \in 1..Len(init) : init[i] = x THEN init
             ELSE Append(init, x)

\* sorted(xs, key=len, reverse=True): stable, longest first
RECURSIVE InsertByLen(_, _)
InsertByLen(sorted, x) ==
    IF sorted = <<>> THEN <<x>>
    ELSE IF Len(Head(sorted)) >= Len(x)
         THEN <<Head(sorted)>> \o InsertByLen(Tail(sorted), x)
         ELSE <<x>> \o sorted

RECURSIVE SortedByLenDesc(_)
SortedByLenDesc(s) ==
    IF s = <<>> THEN <<>>
    ELSE InsertByLen(SortedByLenDesc(SubSeq(s, 1, Len(s) - 1)), s[Len(s)])

\* main.py 262
KnownMaterials(ef) ==
    SortedByLenDesc(Unique([i \in 1..Len(ef) |-> material_clean(ef[i])]))

\* Mutant: the last mention with a match wins.
RECURSIVE BestMaterialMatch_last(_, _)
BestMaterialMatch_last(mentions, known) ==
    IF mentions = <<>> THEN None
    ELSE IF Truthy(find_best_material_match(mentions[Len(mentions)], known))
         THEN find_best_material_match(mentions[Len(mentions)], known)
         ELSE BestMaterialMatch_last(SubSeq(mentions, 1, Len(mentions) - 1),
                                     known)

\* main.py 264: the first mention, in scrape order, whose match is truthy
RECURSIVE BestMaterialMatch(_, _)
BestMaterialMatch(mentions, known) ==
    IF mentions = <<>> THEN None
    ELSE IF Truthy(find_best_material_match(Head(mentions), known))
         THEN find_best_material_match(Head(mentions), known)
         ELSE BestMaterialMatch(Tail(mentions), known)

(***************************************************************************)
(* carbon_estimator.py: call_gemini_api and estimate_carbon.                *)
(***************************************************************************)
Digits == {"0", "1", "2", "3", "4", "5", "6", "7", "8", "9"}

DigitVal(c) ==
    CASE c = "0" -> 0 [] c = "1" -> 1 [] c = "2" -> 2 [] c = "3" -> 3
      [] c = "4" -> 4 [] c = "5" -> 5 [] c = "6" -> 6 [] c = "7" -> 7
      [] c = "8" -> 8 [] c = "9" -> 9

\* int(digits)
RECURSIVE ParseInt(_)
ParseInt(ds) ==
    IF ds = <<>> THEN 0
    ELSE 10 * ParseInt(SubSeq(ds, 1, Len(ds) - 1)) + DigitVal(ds[Len(ds)])

\* re.findall(r"\d+", text)[-1]: the last maximal run of digits, None if
\* the text holds no digit
RECURSIVE RunStart(_, _)
RunStart(text, e) ==
    IF e > 1 /\ text[e - 1] \in Digits THEN RunStart(text, e - 1) ELSE e

LastNumber(text) ==
    LET ends == {i \in 1..Len(text) : text[i] \in Digits}
    IN  IF ends = {} THEN None
        ELSE LET e == CHOOSE i \in ends : \A j \in ends : j <= i
             IN  SubSeq(text, RunStart(text, e), e)

\* Mutant: the key loop of the retired call_openrouter_api, every credential
\* tried in order until one is valid.
call_gemini_api_key_loop(creds, reply) ==
    LET valid == {k \in 1..Len(creds) : creds[k] = "valid"}
        first == CHOOSE k \in valid : \A j \in valid : k <= j
    IN  IF valid = {} THEN [ok |-> FALSE, value |-> 0, attempts |-> Len(creds)]
        ELSE IF reply.raised \/ LastNumber(reply.text) = None
             THEN [ok |-> FALSE, value |-> 0, attempts |-> Len(creds)]
             ELSE [ok |-> TRUE, value |-> ParseInt(LastNumber(reply.text)),
                   attempts |-> first]

\* A reply of the provider to one generate_content call made with a valid
\* key: [raised |-> TRUE] is a network or provider error, else text is
\* response.text.  A key that is not "valid" makes the call raise.
call_gemini_api(creds, reply) ==
    IF creds[1] # "valid" \/ reply.raised
    THEN [ok |-> FALSE, value |-> 0, attempts |-> 1]
    ELSE LET numbers == LastNumber(reply.text)
         IN  IF numbers # None
             THEN [ok |-> TRUE, value |-> ParseInt(numbers), attempts |-> 1]
             ELSE [ok |-> FALSE, value |-> 0, attempts |-> 1]

estimate_carbon(creds, reply) == call_gemini_api(creds, reply)

(***************************************************************************)
(* calculate_carbon_footprint, main.py 159-182.  The result records the     *)
(* value returned, the return statement that produced it (path "RAISED": an *)
(* exception left the function), the provider calls made and how            *)
(* estimate_carbon ended.  Building the description (171-175) formats       *)
(* numbers and joins strings inside the try block and changes no state.     *)
(***************************************************************************)
\* ef_df[ef_df['material_clean'] == material]: the indices of the rows kept
EfRows(ef, material) ==
    SelectSeq([i \in 1..Len(ef) |-> i],
              LAMBDA i : material_clean(ef[i]) = material)

\* Mutant: the LLM is asked first and the table consulted only when it fails.
calculate_carbon_footprint_llm_first(material, weight, quantity, ef, creds, reply) ==
    LET ef_row == IF Truthy(material) THEN EfRows(ef, material) ELSE <<>>
        r == estimate_carbon(creds, reply)
    IN  IF r.ok
        THEN [value |-> r.value * FootprintPerKg, path |-> "LLM",
              attempts |-> r.attempts, llm |-> "returned"]
        ELSE IF ef_row # <<>>
        THEN [value |-> weight * quantity * ef[ef_row[1]].factor,
              path |-> "DATASET", attempts |-> r.attempts, llm |-> "raised"]
        ELSE [value |-> weight * quantity * DefaultFactor,
              path |-> "FALLBACK", attempts |-> r.attempts, llm |-> "raised"]

\* Mutant: no try/except around the LLM call, its exception leaves the function.
calculate_carbon_footprint_no_except(material, weight, quantity, ef, creds, reply) ==
    LET ef_row == IF Truthy(material) THEN EfRows(ef, material) ELSE <<>>
        r == estimate_carbon(creds, reply)
    IN  IF ef_row # <<>>
        THEN [value |-> weight * quantity * ef[ef_row[1]].factor,
              path |-> "DATASET", attempts |-> 0, llm |-> "not_called"]
        ELSE IF r.ok
        THEN [value |-> r.value * FootprintPerKg, path |-> "LLM",
              attempts |-> r.attempts, llm |-> "returned"]
        ELSE [value |-> NoneNum, path |-> "RAISED", attempts |-> r.attempts,
              llm |-> "raised"]

calculate_carbon_footprint(material, weight, quantity, ef, creds, reply) ==
    LET ef_row == IF Truthy(material) THEN EfRows(ef, material) ELSE <<>>
    IN  IF ef_row # <<>>
        THEN [value |-> weight * quantity * ef[ef_row[1]].factor,
              path |-> "DATASET", attempts |-> 0, llm |-> "not_called"]
        ELSE LET r == estimate_carbon(creds, reply)
             IN  IF r.ok
                 THEN [value |-> r.value * FootprintPerKg, path |-> "LLM",
                       attempts |-> r.attempts, llm |-> "returned"]
                 ELSE [value |-> weight * quantity * DefaultFactor,
                       path |-> "FALLBACK", attempts |-> r.attempts,
                       llm |-> "raised"]

(***************************************************************************)
(* get_recommendations, main.py 184-245.  A row of products_file is         *)
(* [Title, Category, Material, Weight, Quantity] (Category is the column    *)
(* 'Search Query'; img_url and Link are copied through and left out).  A    *)
(* recommendation carries `index`, the catalog row it was built from.       *)
(***************************************************************************)
\* main.py 192-200
RECURSIVE FirstCategoryIn(_, _)
FirstCategoryIn(cats, lower_product_name) ==
    IF cats = <<>> THEN None
    ELSE IF Contains(Lower(Head(cats)), lower_product_name) THEN Head(cats)
    ELSE FirstCategoryIn(Tail(cats), lower_product_name)

\* Mutant: the categories are scanned in catalog order, not longest first.
MatchedCategory_catalog_order(name, products) ==
    FirstCategoryIn(Unique([i \in 1..Len(products) |-> products[i].Category]),
                    Lower(name))

MatchedCategory(name, products) ==
    LET product_categories ==
            Unique([i \in 1..Len(products) |-> products[i].Category])
        sorted_categories == SortedByLenDesc(product_categories)
    IN  FirstCategoryIn(sorted_categories, Lower(name))

\* main.py 211-224: the left merge gives a catalog row one merged row per
\* table row with its material_clean, in table order, and one with the
\* default factor when there is none
MergeRow(i, row, ef) ==
    LET js == EfRows(ef, Lower(Strip(row.Material)))
        mk(f) == [index |-> i, product_name |-> row.Title,
                  material |-> row.Material,
                  carbon_footprint |-> Round3(row.Weight * row.Quantity * f)]
    IN  IF js = <<>> THEN <<mk(DefaultFactor)>>
        ELSE [k \in 1..Len(js) |-> mk(ef[js[k]].factor)]

RECURSIVE MergedFrom(_, _, _, _, _)
MergedFrom(products, ef, category, name, i) ==
    IF i > Len(products) THEN <<>>
    ELSE (IF products[i].Category = category /\ products[i].Title # name
          THEN MergeRow(i, products[i], ef) ELSE <<>>)
         \o MergedFrom(products, ef, category, name, i + 1)

\* sort_values(by='carbon_footprint').head(n).  pandas' default sort is not
\* stable: every ascending order of the rows is a possible outcome.  The
\* rows are put in ascending order, and each of the first n places takes any
\* row of the leading run of equal footprints.
RECURSIVE InsertByFootprint(_, _)
InsertByFootprint(sorted, r) ==
    IF sorted = <<>> THEN <<r>>
    ELSE IF Head(sorted).carbon_footprint <= r.carbon_footprint
         THEN <<Head(sorted)>> \o InsertByFootprint(Tail(sorted), r)
         ELSE <<r>> \o sorted

RECURSIVE Ascending(_)
Ascending(rows) ==
    IF rows = <<>> THEN <<>>
    ELSE InsertByFootprint(Ascending(SubSeq(rows, 1, Len(rows) - 1)),
                           rows[Len(rows)])

RECURSIVE SortedHead(_, _, _)
SortedHead(asc, taken, n) ==
    LET left == (1..Len(asc)) \ taken
    IN  IF left = {} \/ n = 0 THEN {<<>>}
        ELSE LET first == CHOOSE i \in left : \A j \in left : i <= j
                 run == {i \in left : asc[i].carbon_footprint
                                        = asc[first].carbon_footprint}
                 \* equal rows give equal lists: one index for each
                 picks == {i \in run : \A j \in run : asc[j] = asc[i] => i <= j}
             IN  UNION {{<<asc[i]>> \o t :
                            t \in SortedHead(asc, taken \cup {i}, n - 1)}
                        : i \in picks}

\* Mutant: rows equal to the baseline are kept (<= for <).
get_recommendations_nonstrict(name, baseline, products, ef) ==
    LET category == MatchedCategory(name, products)
    IN  IF ~Truthy(category) THEN {<<>>}
        ELSE LET merged == MergedFrom(products, ef, category, name, 1)
                 kept == SelectSeq(merged,
                            LAMBDA r : baseline = NoneNum
                                       \/ r.carbon_footprint <= baseline)
             IN  SortedHead(Ascending(kept), {}, HeadLimit)

\* Mutant: the baseline filter is skipped.
get_recommendations_unfiltered(name, baseline, products, ef) ==
    LET category == MatchedCategory(name, products)
    IN  IF ~Truthy(category) THEN {<<>>}
        ELSE SortedHead(Ascending(MergedFrom(products, ef, category, name, 1)),
                        {}, HeadLimit)

\* the set of lists the call can return when no read fails
get_recommendations(name, baseline, products, ef) ==
    LET category == MatchedCategory(name, products)
    IN  IF ~Truthy(category) THEN {<<>>}
        ELSE LET merged == MergedFrom(products, ef, category, name, 1)
                 kept == SelectSeq(merged,
                            LAMBDA r : baseline = NoneNum
                                       \/ r.carbon_footprint < baseline)
             IN  SortedHead(Ascending(kept), {}, HeadLimit)

(***************************************************************************)
(* analyze_product, main.py 253-295: the responses it builds.               *)
(***************************************************************************)
NoProduct ==
    [name |-> None, materials_found |-> <<>>, weight_value |-> 0,
     weight_unit |-> None, net_quantity |-> 0]

NoResponse ==
    [success |-> FALSE, product_name |-> None, carbon_footprint |-> NoneNum,
     material |-> None, recommendations |-> <<>>, error |-> None]

\* main.py 277-289
SuccessResponse(data, footprint, material, recs) ==
    [success |-> TRUE, product_name |-> data.name,
     carbon_footprint |-> Round3(footprint),
     material |-> IF Truthy(material) THEN material
                  ELSE IF data.materials_found # <<>>
                       THEN data.materials_found[1]
                       ELSE <<"U", "n", "k", "n", "o", "w", "n">>,
     recommendations |-> recs, error |-> None]

\* Mutant: no except clause, the exception leaves analyze_product.
analyze_except_propagates(e) ==
    [pc |-> "crashed", response |-> NoResponse]

\* main.py 290-295: `except Exception as e` around the whole body; e is the
\* message of the exception
analyze_except(e) ==
    [pc |-> "done",
     response |-> [success |-> FALSE,
                   product_name |-> <<"E", "r", "r", "o", "r">>,
                   carbon_footprint |-> NoneNum, material |-> None,
                   recommendations |-> <<>>, error |-> e]]

(***************************************************************************)
(* The inputs of the model.                                                 *)
(***************************************************************************)
\* rows of the emission-factor table; " AB" and "ab" share a material_clean
EfEntries ==
    {[Material |-> <<"a", "b">>, factor |-> 12],
     [Material |-> <<" ", "A", "B">>, factor |-> 30],
     [Material |-> <<"b">>, factor |-> 5]}

EfFiles == SeqsUpTo(EfEntries, MaxTableLen)

\* what the provider can answer to a call made with a valid key
LLMReplies ==
    {[raised |-> TRUE, text |-> <<>>],
     [raised |-> FALSE, text |-> <<"4">>],
     [raised |-> FALSE, text |-> <<"1", "2">>],
     [raised |-> FALSE, text |-> <<"3", "k", "5">>],
     [raised |-> FALSE, text |-> <<"o", "k">>]}

CredentialStates == {"valid", "invalid", "quota"}

\* values every specification starts its request-scoped variables with
RequestIdle ==
    /\ product_data = NoProduct
    /\ carbon_footprint = NoneNum
    /\ estimate_path = "none"
    /\ llm_attempts = 0
    /\ llm_outcome = "not_called"
    /\ matched_category = None
    /\ recommendations = <<>>
    /\ match_result = None
    /\ raised_in = "none"
    /\ response = NoResponse

(***************************************************************************)
(* Calls of find_best_material_match with the known_materials that          *)
(* analyze_product derives from a table.                                    *)
(***************************************************************************)
Alphabet == {"a", "b", "c", "B"}

MatchEntries ==
    {[Material |-> m, factor |-> 12] :
        m \in {<<"a", "b">>, <<"b">>, <<"c">>, <<"b", "c">>}}

InitMatch ==
    /\ pc = "match_call"
    /\ ef_file \in SeqsUpTo(MatchEntries, MaxTableLen)
    /\ products_file = <<>>
    /\ credentials = <<"valid">>
    /\ text_to_search \in SeqsUpTo(Alphabet, MaxTextLen)
    /\ known_materials = KnownMaterials(ef_file)
    /\ best_material_match = None
    /\ weight_in_kg = 0
    /\ net_quantity = 0
    /\ product_name = None
    /\ analyzed_carbon_footprint = NoneNum
    /\ RequestIdle

FindBestMaterialMatch ==
    /\ pc = "match_call"
    /\ match_result' = find_best_material_match(text_to_search, known_materials)
    /\ pc' = "match_done"
    /\ UNCHANGED <<ef_file, products_file, credentials, product_data,
                   best_material_match, weight_in_kg, net_quantity,
                   carbon_footprint, estimate_path, llm_attempts, llm_outcome,
                   product_name, analyzed_carbon_footprint, matched_category,
                   recommendations, text_to_search, known_materials,
                   raised_in, response>>

SpecMatch == InitMatch /\ [][FindBestMaterialMatch]_vars

(***************************************************************************)
(* Calls of estimate_carbon under every configuration of credentials.       *)
(***************************************************************************)
InitLLM ==
    /\ pc = "llm_call"
    /\ ef_file = <<>>
    /\ products_file = <<>>
    /\ credentials \in SeqsUpTo(CredentialStates, MaxCreds) \ {<<>>}
    /\ text_to_search = None
    /\ known_materials = <<>>
    /\ best_material_match = None
    /\ weight_in_kg = 0
    /\ net_quantity = 0
    /\ product_name = None
    /\ analyzed_carbon_footprint = NoneNum
    /\ RequestIdle

EstimateCarbon ==
    /\ pc = "llm_call"
    /\ \E reply \in LLMReplies :
         LET r == estimate_carbon(credentials, reply)
         IN  /\ llm_attempts' = r.attempts
             /\ llm_outcome' = IF r.ok THEN "returned" ELSE "raised"
             /\ carbon_footprint' = IF r.ok THEN r.value ELSE NoneNum
    /\ pc' = "llm_done"
    /\ UNCHANGED <<ef_file, products_file, credentials, product_data,
                   best_material_match, weight_in_kg, net_quantity,
                   estimate_path, product_name, analyzed_carbon_footprint,
                   matched_category, recommendations, text_to_search,
                   known_materials, match_result, raised_in, response>>

SpecLLM == InitLLM /\ [][EstimateCarbon]_vars

(***************************************************************************)
(* Calls of calculate_carbon_footprint.  The material is None or a          *)
(* non-empty text: analyze_product, its only caller, passes nothing else.   *)
(***************************************************************************)
CalcMaterials == {None, <<"a", "b">>, <<"b">>, <<"z">>}

CalcWeights == {convert_to_kg(1, <<"G">>), convert_to_kg(2, <<"l", "b">>)}

InitCalc ==
    /\ pc = "calc_call"
    /\ ef_file \in EfFiles
    /\ products_file = <<>>
    /\ credentials \in {<<"valid">>, <<"invalid">>}
    /\ text_to_search = None
    /\ known_materials = <<>>
    /\ best_material_match \in CalcMaterials
    /\ weight_in_kg \in CalcWeights
    /\ net_quantity \in 1..2
    /\ product_name = None
    /\ analyzed_carbon_footprint = NoneNum
    /\ RequestIdle

\* the call and what it leaves in the state; pc "raised": an exception left
\* the function
Calculate(next_pc, raised_pc) ==
    \E reply \in LLMReplies :
        LET r == calculate_carbon_footprint(best_material_match, weight_in_kg,
                     net_quantity, ef_file, credentials, reply)
        IN  /\ carbon_footprint' = r.value
            /\ estimate_path' = r.path
            /\ llm_attempts' = r.attempts
            /\ llm_outcome' = r.llm
            /\ pc' = IF r.path = "RAISED" THEN raised_pc ELSE next_pc

CalculateCarbonFootprint ==
    /\ pc = "calc_call"
    /\ Calculate("calc_done", "raised")
    /\ UNCHANGED <<ef_file, products_file, credentials, product_data,
                   best_material_match, weight_in_kg, net_quantity,
                   product_name, analyzed_carbon_footprint, matched_category,
                   recommendations, text_to_search, known_materials,
                   match_result, raised_in, response>>

SpecCalc == InitCalc /\ [][CalculateCarbonFootprint]_vars

(***************************************************************************)
(* Calls of get_recommendations.  The catalog is a few rows drawn from      *)
(* CatalogRows followed by no or FillerLen rows of one category, enough for *)
(* head(10) to cut the list.                                                *)
(***************************************************************************)
CatalogRows ==
    {[Title |-> <<"S", "p">>, Category |-> <<"s", "p">>,
      Material |-> <<"a", "b">>, Weight |-> 240000, Quantity |-> 1],
     [Title |-> <<"t">>, Category |-> <<"s", "p">>,
      Material |-> <<"A", "B", " ">>, Weight |-> 200000, Quantity |-> 1],
     [Title |-> <<"t">>, Category |-> <<"p">>,
      Material |-> <<"b">>, Weight |-> 14567, Quantity |-> 2],
     [Title |-> <<"t">>, Category |-> <<"S">>,
      Material |-> <<"c">>, Weight |-> 100000, Quantity |-> 1]}

Filler(n) ==
    [i \in 1..n |-> [Title |-> <<"f">>, Category |-> <<"s", "p">>,
                     Material |-> <<"c">>, Weight |-> i * 100000,
                     Quantity |-> 1]]

Catalogs ==
    {c \o Filler(n) : c \in SeqsUpTo(CatalogRows, MaxCatalogLen),
                      n \in {0, FillerLen}}

ProductNames == {<<"S", "p">>, <<"x", "P">>, <<"x">>}

Baselines == {NoneNum, 5000000, 23000000}

InitRec ==
    /\ pc = "rec_call"
    /\ ef_file \in EfFiles
    /\ products_file \in Catalogs
    /\ credentials = <<"valid">>
    /\ text_to_search = None
    /\ known_materials = <<>>
    /\ best_material_match = None
    /\ weight_in_kg = 0
    /\ net_quantity = 0
    /\ product_name \in ProductNames
    /\ analyzed_carbon_footprint \in Baselines
    /\ RequestIdle

\* the call returns one of the lists get_recommendations allows
Recommend(name, baseline, next_pc) ==
    /\ \E recs \in get_recommendations(name, baseline, products_file, ef_file) :
           recommendations' = recs
    /\ matched_category' = MatchedCategory(name, products_file)
    /\ pc' = next_pc

\* main.py 243-245: a read or any other step of the body raised
RecommendExcept(next_pc) ==
    /\ recommendations' = <<>>
    /\ raised_in' = "recommend"
    /\ pc' = next_pc

GetRecommendations ==
    /\ pc = "rec_call"
    /\ Recommend(product_name, analyzed_carbon_footprint, "rec_done")
    /\ UNCHANGED <<ef_file, products_file, credentials, product_data,
                   best_material_match, weight_in_kg, net_quantity,
                   carbon_footprint, estimate_path, llm_attempts, llm_outcome,
                   product_name, analyzed_carbon_footprint, text_to_search,
                   known_materials, match_result, raised_in, response>>

GetRecommendationsRaises ==
    /\ pc = "rec_call"
    /\ RecommendExcept("rec_done")
    /\ UNCHANGED <<ef_file, products_file, credentials, product_data,
                   best_material_match, weight_in_kg, net_quantity,
                   carbon_footprint, estimate_path, llm_attempts, llm_outcome,
                   product_name, analyzed_carbon_footprint, matched_category,
                   text_to_search, known_materials, match_result, response>>

NextRec == GetRecommendations \/ GetRecommendationsRaises

SpecRec == InitRec /\ [][NextRec]_vars

(***************************************************************************)
(* POST /analyze: analyze_product, main.py 253-295, one request after the   *)
(* other.  The two files are what the deployment holds; the scraper and     *)
(* the reads of the files return or raise.                                  *)
(***************************************************************************)
PipelineCatalogs ==
    {<<>>,
     <<[Title |-> <<"t">>, Category |-> <<"s", "p">>,
        Material |-> <<"a", "b">>, Weight |-> 20000, Quantity |-> 1],
       [Title |-> <<"S", "p">>, Category |-> <<"s", "p">>,
        Material |-> <<"c">>, Weight |-> 1000, Quantity |-> 1]>>}

MentionTexts == {<<"A", "b">>, <<"x">>, <<"x", "b">>}

\* what scrape_amazon_product (main.py 121-156) can return
Scrapes ==
    [name : {<<"S", "p">>, <<"x">>},
     materials_found : SeqsUpTo(MentionTexts, MaxMentions),
     weight_value : {2},
     weight_unit : {None, <<"G">>, <<"o", "z">>},
     net_quantity : {1, 2}]

Init ==
    /\ pc = "idle"
    /\ ef_file \in EfFiles
    /\ products_file \in PipelineCatalogs
    /\ credentials = <<"valid">>
    /\ text_to_search = None
    /\ known_materials = <<>>
    /\ best_material_match = None
    /\ weight_in_kg = 0
    /\ net_quantity = 0
    /\ product_name = None
    /\ analyzed_carbon_footprint = NoneNum
    /\ RequestIdle

\* main.py 256
ScrapeReturns ==
    /\ pc = "idle"
    /\ product_data' \in Scrapes
    /\ pc' = "scraped"
    /\ UNCHANGED <<ef_file, products_file, credentials, best_material_match,
                   weight_in_kg, net_quantity, carbon_footprint, estimate_path,
                   llm_attempts, llm_outcome, product_name,
                   analyzed_carbon_footprint, matched_category,
                   recommendations, text_to_search, known_materials,
                   match_result, raised_in, response>>

\* main.py 256, 153-156: the scraper raises
ScrapeRaises ==
    /\ pc = "idle"
    /\ raised_in' = "scrape"
    /\ pc' = analyze_except(<<"scrape">>).pc
    /\ response' = analyze_except(<<"scrape">>).response
    /\ UNCHANGED <<ef_file, products_file, credentials, product_data,
                   best_material_match, weight_in_kg, net_quantity,
                   carbon_footprint, estimate_path, llm_attempts, llm_outcome,
                   product_name, analyzed_carbon_footprint, matched_category,
                   recommendations, text_to_search, known_materials,
                   match_result>>

\* main.py 257-264
LoadAndMatch ==
    /\ pc = "scraped"
    /\ weight_in_kg' = convert_to_kg(product_data.weight_value,
                                     product_data.weight_unit)
    /\ net_quantity' = product_data.net_quantity
    /\ known_materials' = KnownMaterials(ef_file)
    /\ best_material_match' =
           BestMaterialMatch(product_data.materials_found,
                             KnownMaterials(ef_file))
    /\ pc' = "matched"
    /\ UNCHANGED <<ef_file, products_file, credentials, product_data,
                   carbon_footprint, estimate_path, llm_attempts, llm_outcome,
                   product_name, analyzed_carbon_footprint, matched_category,
                   recommendations, text_to_search, match_result, raised_in,
                   response>>

\* main.py 259: reading the emission-factor table raises
LoadRaises ==
    /\ pc = "scraped"
    /\ weight_in_kg' = convert_to_kg(product_data.weight_value,
                                     product_data.weight_unit)
    /\ raised_in' = "load"
    /\ pc' = analyze_except(<<"load">>).pc
    /\ response' = analyze_except(<<"load">>).response
    /\ UNCHANGED <<ef_file, products_file, credentials, product_data,
                   best_material_match, net_quantity, carbon_footprint,
                   estimate_path, llm_attempts, llm_outcome, product_name,
                   analyzed_carbon_footprint, matched_category,
                   recommendations, text_to_search, known_materials,
                   match_result>>

\* main.py 266-269; an exception that leaves calculate_carbon_footprint
\* reaches the except clause
Estimate ==
    /\ pc = "matched"
    /\ Calculate("estimated", analyze_except(<<"estimate">>).pc)
    /\ IF estimate_path' = "RAISED"
       THEN /\ raised_in' = "estimate"
            /\ response' = analyze_except(<<"estimate">>).response
       ELSE UNCHANGED <<raised_in, response>>
    /\ UNCHANGED <<ef_file, products_file, credentials, product_data,
                   best_material_match, weight_in_kg, net_quantity,
                   product_name, analyzed_carbon_footprint, matched_category,
                   recommendations, text_to_search, known_materials,
                   match_result>>

\* main.py 275-289
RecommendAndRespond ==
    /\ pc = "estimated"
    /\ product_name' = product_data.name
    /\ analyzed_carbon_footprint' = carbon_footprint
    /\ Recommend(product_data.name, carbon_footprint, "done")
    /\ response' = SuccessResponse(product_data, carbon_footprint,
                                   best_material_match, recommendations')
    /\ UNCHANGED <<ef_file, products_file, credentials, product_data,
                   best_material_match, weight_in_kg, net_quantity,
                   carbon_footprint, estimate_path, llm_attempts, llm_outcome,
                   text_to_search, known_materials, match_result, raised_in>>

\* main.py 275-289, get_recommendations took its except clause
RecommendRaisesAndRespond ==
    /\ pc = "estimated"
    /\ product_name' = product_data.name
    /\ analyzed_carbon_footprint' = carbon_footprint
    /\ RecommendExcept("done")
    /\ response' = SuccessResponse(product_data, carbon_footprint,
                                   best_material_match, recommendations')
    /\ UNCHANGED <<ef_file, products_file, credentials, product_data,
                   best_material_match, weight_in_kg, net_quantity,
                   carbon_footprint, estimate_path, llm_attempts, llm_outcome,
                   matched_category, text_to_search, known_materials,
                   match_result>>

\* the next request starts from nothing but the two files
NextRequest ==
    /\ pc = "done"
    /\ pc' = "idle"
    /\ product_data' = NoProduct
    /\ best_material_match' = None
    /\ weight_in_kg' = 0
    /\ net_quantity' = 0
    /\ carbon_footprint' = NoneNum
    /\ estimate_path' = "none"
    /\ llm_attempts' = 0
    /\ llm_outcome' = "not_called"
    /\ product_name' = None
    /\ analyzed_carbon_footprint' = NoneNum
    /\ matched_category' = None
    /\ recommendations' = <<>>
    /\ known_materials' = <<>>
    /\ raised_in' = "none"
    /\ response' = NoResponse
    /\ UNCHANGED <<ef_file, products_file, credentials, text_to_search,
                   match_result>>

Next ==
    \/ ScrapeReturns
    \/ ScrapeRaises
    \/ LoadAndMatch
    \/ LoadRaises
    \/ Estimate
    \/ RecommendAndRespond
    \/ RecommendRaisesAndRespond
    \/ NextRequest

Spec == Init /\ [][Next]_vars

(***************************************************************************)
(* Properties.                                                              *)
(***************************************************************************)
\* the factor of the first row of table ef whose material_clean is m
FirstFactor(ef, m) ==
    LET rows == {i \in 1..Len(ef) : material_clean(ef[i]) = m}
    IN  ef[CHOOSE i \in rows : \A j \in rows : i <= j].factor

InTable(ef, m) == \E i \in 1..Len(ef) : material_clean(ef[i]) = m

\* C1: strict waterfall.  A call of calculate_carbon_footprint with a
\* non-null material that is a key of the table returns weight * quantity *
\* that key's factor without any LLM call; the LLM is called only when the
\* material is null or not in the table; the 2.5 default is used only after
\* an LLM call has failed.
C1_StrictWaterfall ==
    pc = "calc_done" =>
        LET hit == best_material_match # None
                   /\ InTable(ef_file, best_material_match)
        IN  /\ hit => /\ carbon_footprint
                          = weight_in_kg * net_quantity
                            * FirstFactor(ef_file, best_material_match)
                      /\ estimate_path = "DATASET"
                      /\ llm_attempts = 0
                      /\ llm_outcome = "not_called"
            /\ (llm_attempts > 0 \/ llm_outcome # "not_called") => ~hit
            /\ estimate_path = "FALLBACK" =>
                   llm_attempts > 0 /\ llm_outcome = "raised"

C1_Witness ==
    /\ pc = "calc_done"
    /\ best_material_match # None
    /\ InTable(ef_file, best_material_match)
    /\ estimate_path = "DATASET"
    /\ carbon_footprint > 0

\* C2: when the material is null or not in the table and the LLM fails in
\* any way (the call raises, or the text holds no integer), no exception
\* leaves calculate_carbon_footprint and it returns weight * quantity * 2.5;
\* every call returns a number.
C2_FallbackOnLLMFailure ==
    /\ pc # "raised"
    /\ pc = "calc_done" =>
          /\ estimate_path \in {"DATASET", "LLM", "FALLBACK"}
          /\ carbon_footprint >= 0
          /\ llm_outcome = "raised" =>
                 carbon_footprint = weight_in_kg * net_quantity * 25

C2_Witness ==
    /\ pc = "calc_done"
    /\ best_material_match = None
    /\ credentials[1] = "valid"
    /\ llm_outcome = "raised"
    /\ carbon_footprint = weight_in_kg * net_quantity * 25

\* C3: an exception of the scraper or of loading the emission-factor table
\* is turned into a response with success = false, a non-null error, a null
\* carbon_footprint and no recommendations; no exception leaves
\* analyze_product; a failure inside get_recommendations alone gives
\* success = true with an empty recommendation list.
C3_FailuresBecomeResponses ==
    /\ pc # "crashed"
    /\ (pc = "done" /\ raised_in \in {"scrape", "load"}) =>
          /\ response.success = FALSE
          /\ response.error # None
          /\ response.carbon_footprint = NoneNum
          /\ response.recommendations = <<>>
    /\ (pc = "done" /\ raised_in = "recommend") =>
          /\ response.success = TRUE
          /\ response.error = None
          /\ response.carbon_footprint # NoneNum
          /\ response.recommendations = <<>>

C3_Witness ==
    /\ pc = "done"
    /\ raised_in = "load"
    /\ product_data # NoProduct
    /\ response.success = FALSE

\* C4: longest-first precedence of the matcher.  With known_materials
\* sorted by descending length and the lowercased text equal to none of
\* them, find_best_material_match returns the first element of
\* known_materials, in list order, that occurs anywhere in the lowercased
\* text, and None only if none occurs.  (Stated for known materials of
\* pairwise different lengths, where longest first leaves no choice.)
C4_LongestFirstPrecedence ==
    (/\ pc = "match_done"
     /\ known_materials # <<>>
     /\ \A i, j \in 1..Len(known_materials) :
            i < j => Len(known_materials[i]) > Len(known_materials[j])
     /\ text_to_search # <<>>
     /\ \A i \in 1..Len(known_materials) :
            known_materials[i] # Lower(text_to_search)) =>
        LET hits == {i \in 1..Len(known_materials) :
                        Contains(known_materials[i], Lower(text_to_search))}
        IN  IF hits = {} THEN match_result = None
            ELSE match_result
                     = known_materials[CHOOSE i \in hits :
                                           \A j \in hits : i <= j]

\* C7: the material analyze_product estimates with is the match of the
\* first scraped mention, in scrape order, that has a match; later mentions
\* are not used; it is null only when no mention has a match.
MentionMatch(i) ==
    find_best_material_match(product_data.materials_found[i],
                             KnownMaterials(ef_file))

MentionHits ==
    {i \in 1..Len(product_data.materials_found) : Truthy(MentionMatch(i))}

Matched ==
    pc \in {"matched", "estimated"} \/ (pc = "done" /\ response.success)

C7_FirstMatchingMention ==
    Matched =>
        /\ IF MentionHits = {} THEN best_material_match = None
           ELSE \E i \in MentionHits :
                    /\ \A j \in MentionHits : i <= j
                    /\ best_material_match = MentionMatch(i)
        /\ (pc # "matched" /\ best_material_match # None) =>
               /\ estimate_path = "DATASET"
               /\ carbon_footprint
                      = weight_in_kg * net_quantity
                        * FirstFactor(ef_file, best_material_match)
        /\ (pc = "done" /\ best_material_match # None) =>
               response.material = best_material_match

C7_Witness ==
    /\ pc = "estimated"
    /\ Len(product_data.materials_found) = 2
    /\ MentionHits = {1, 2}
    /\ MentionMatch(1) # MentionMatch(2)
    /\ best_material_match = MentionMatch(1)

RowFactors(row) ==
    LET js == {j \in 1..Len(ef_file) :
                  material_clean(ef_file[j]) = Lower(Strip(row.Material))}
    IN  IF js = {} THEN {25} ELSE {ef_file[j].factor : j \in js}

RowFootprint(row, f) == Round3(row.Weight * row.Quantity * f)

\* the footprints, one for each table row used, of catalog row i when it is
\* eligible: in the matched category, its title not the product's name, and
\* below the baseline
EligibleFootprints(i) ==
    LET row == products_file[i]
    IN  IF row.Category = matched_category /\ row.Title # product_name
        THEN {v \in {RowFootprint(row, f) : f \in RowFactors(row)} :
                 analyzed_carbon_footprint = NoneNum
                 \/ v < analyzed_carbon_footprint}
        ELSE {}

RecsReturned ==
    \/ pc = "rec_done" /\ raised_in = "none"
    \/ pc = "done" /\ response.success /\ raised_in = "none"

\* C5: get_recommendations returns at most 10 items in ascending
\* carbon_footprint order, each a row of the matched category whose title
\* differs from product_name and whose footprint is strictly below the
\* baseline; no eligible row left out has a footprint lower than a returned
\* one, and rows are left out only when 10 are returned.
C5_TenSmallestEligible ==
    RecsReturned =>
        LET recs == recommendations
            n == Len(recs)
            shown(i, v) == \E k \in 1..n : /\ recs[k].index = i
                                           /\ recs[k].carbon_footprint = v
        IN  /\ n <= 10
            /\ \A k \in 1..(n - 1) :
                   recs[k].carbon_footprint <= recs[k + 1].carbon_footprint
            /\ \A k \in 1..n :
                   /\ recs[k].index \in 1..Len(products_file)
                   /\ recs[k].product_name = products_file[recs[k].index].Title
                   /\ products_file[recs[k].index].Category = matched_category
                   /\ recs[k].product_name # product_name
                   /\ analyzed_carbon_footprint # NoneNum =>
                          recs[k].carbon_footprint < analyzed_carbon_footprint
                   /\ recs[k].carbon_footprint
                          \in EligibleFootprints(recs[k].index)
            /\ \A i \in 1..Len(products_file) :
                   \A v \in EligibleFootprints(i) :
                       \/ shown(i, v)
                       \/ n = 10 /\ v >= recs[n].carbon_footprint

C5_Witness ==
    /\ pc = "rec_done"
    /\ raised_in = "none"
    /\ analyzed_carbon_footprint # NoneNum
    /\ Len(recommendations) = 10
    /\ \E i \in 1..Len(products_file) :
           /\ EligibleFootprints(i) # {}
           /\ \A k \in 1..10 : recommendations[k].index # i
    /\ \E i \in 1..Len(products_file) :
           /\ products_file[i].Category = matched_category
           /\ products_file[i].Title # product_name
           /\ EligibleFootprints(i) = {}

\* C6: when the table holds a normalized material key more than once, the
\* factor of its first occurrence is the one used for every catalog row, so
\* that each catalog row yields one footprint and at most one
\* recommendation.
C6_FirstOccurrenceWins ==
    RecsReturned =>
        /\ \A k \in 1..Len(recommendations) :
               LET row == products_file[recommendations[k].index]
                   m == Lower(Strip(row.Material))
               IN  InTable(ef_file, m) =>
                       recommendations[k].carbon_footprint
                           = RowFootprint(row, FirstFactor(ef_file, m))
        /\ \A k, l \in 1..Len(recommendations) :
               k # l => recommendations[k].index # recommendations[l].index

\* C8: among the distinct catalog categories ordered by descending length,
\* the matched category is the first that is a case-insensitive substring
\* of product_name, so the longer of two categories that occur is chosen
\* (of two of equal length, the one the catalog lists first); when none
\* occurs the result is the empty list.
FirstRowOf(category) ==
    CHOOSE i \in 1..Len(products_file) :
        /\ products_file[i].Category = category
        /\ \A j \in 1..(i - 1) : products_file[j].Category # category

OccurringCategories ==
    {products_file[i].Category : i \in
        {j \in 1..Len(products_file) :
            Contains(Lower(products_file[j].Category), Lower(product_name))}}

C8_LongestCategoryMatched ==
    (pc = "rec_done" /\ raised_in = "none") =>
        IF OccurringCategories = {}
        THEN matched_category = None /\ recommendations = <<>>
        ELSE /\ matched_category \in OccurringCategories
             /\ \A c \in OccurringCategories :
                    \/ Len(c) < Len(matched_category)
                    \/ /\ Len(c) = Len(matched_category)
                       /\ FirstRowOf(matched_category) <= FirstRowOf(c)

C8_Witness ==
    /\ pc = "rec_done"
    /\ raised_in = "none"
    /\ \E c \in OccurringCategories :
           /\ Len(c) < Len(matched_category)
           /\ FirstRowOf(c) < FirstRowOf(matched_category)
    /\ recommendations # <<>>

\* C10 as claimed: in a successful response every recommendation's
\* carbon_footprint is strictly less than the response's own
\* carbon_footprint, the estimate rounded to 3 decimals.
C10_RecsBelowReported ==
    (pc = "done" /\ response.success) =>
        \A k \in 1..Len(response.recommendations) :
            response.recommendations[k].carbon_footprint
                < response.carbon_footprint

\* C10 as amended: in a successful response every recommendation's
\* carbon_footprint is strictly less than the unrounded estimate and
\* therefore less than or equal to the response's carbon_footprint, which
\* it can equal.
C10_RecsNotAboveReported ==
    (pc = "done" /\ response.success) =>
        \A k \in 1..Len(response.recommendations) :
            /\ response.recommendations[k].carbon_footprint < carbon_footprint
            /\ response.recommendations[k].carbon_footprint
                   <= response.carbon_footprint

C10_Witness ==
    /\ pc = "done"
    /\ response.success
    /\ \E k \in 1..Len(response.recommendations) :
           /\ response.recommendations[k].carbon_footprint
                  = response.carbon_footprint
           /\ response.recommendations[k].carbon_footprint < carbon_footprint
====
